---- MODULE Spec2Model ----
(***************************************************************************)
(* Model of the LangGraph chatbot: the conversation graph of rr.py         *)
(* (chat_node, the prebuilt tool node, the conditional edge, the SQLite    *)
(* checkpointer) and the Streamlit session script of frontend.py.          *)
(*                                                                         *)
(* Text is a sequence of strings.  A user message is a sequence of         *)
(* one-character strings; an assistant message is the sequence of the      *)
(* fragments the model streams; a tool message is the rendering of the     *)
(* tool's return value.                                                    *)
(***************************************************************************)
EXTENDS Integers, Sequences, FiniteSets, TLC

VARIABLES
    clients,          \* the browser sessions that connect to the server
    checkpointer,     \* rr.py:124-129  TRUE: SqliteSaver built, FALSE: None
    checkpoints,      \* the store: thread id -> latest persisted messages
    started,          \* session -> the script has run once for the session
    thread_id,        \* st.session_state["thread_id"]
    chat_threads,     \* st.session_state["chat_threads"]: Seq of [id, name]
    message_history,  \* st.session_state["message_history"]: Seq of [role, content]
    fault,            \* session -> exception that ended the last script run
    pc,               \* session -> position of the session's turn in the graph
    messages,         \* session -> ChatState["messages"] of the running turn
    loaded,           \* session -> messages the turn started from (checkpoint read)
    results,          \* session -> outcome per tool call of the running tools step
    llm_log,          \* session -> what the last chat_node call logged (line 113)
    calls,            \* model invocations asked for so far, by all sessions
    uuid,             \* session -> number of message and call identifiers drawn
    nthreads,         \* session -> number of thread identifiers drawn
    ai_message,       \* session -> fragments written by st.write_stream
    status_box,       \* session -> status_holder["box"]: none, running, complete
    call_args,        \* arguments of the function call under test
    returned          \* [done, value]: what that call returned

vars == <<clients, checkpointer, checkpoints, started, thread_id, chat_threads,
          message_history, fault, pc, messages, loaded, results, llm_log,
          calls, uuid, nthreads, ai_message, status_box, call_args, returned>>

\* the variables of a call of one function on its own
call_vars == <<call_args, returned>>

\* ------------------------------------------------------------------ bounds
MaxCalls == 2      \* model invocations, over all turns of all sessions
MaxThreads == 3    \* thread identifiers drawn, over all sessions

Sessions == {"s1", "s2"}
\* the sessions are opened one after the other
Before(r, s) == r = "s1" /\ s = "s2"

\* ------------------------------------------------------------------- text
Whitespace == {" ", "\n", "\t"}
NewChat == <<"N", "e", "w", " ", "C", "h", "a", "t">>
Ellipsis == <<".", ".", ".">>
NameLimit == 50
NameKeep == 47

RECURSIVE lstrip(_)
lstrip(s) ==
    IF s = <<>> THEN <<>>
    ELSE IF Head(s) \in Whitespace THEN lstrip(Tail(s)) ELSE s

RECURSIVE rstrip(_)
rstrip(s) ==
    IF s = <<>> THEN <<>>
    ELSE IF s[Len(s)] \in Whitespace THEN rstrip(SubSeq(s, 1, Len(s) - 1)) ELSE s

strip(s) == rstrip(lstrip(s))

\* " ".join(name.split()): words separated by single spaces
RECURSIVE join_split(_, _)
join_split(s, out) ==
    IF s = <<>> THEN out
    ELSE IF Head(s) \in Whitespace
         THEN join_split(lstrip(s),
                         IF out = <<>> \/ lstrip(s) = <<>> THEN out
                         ELSE Append(out, " "))
         ELSE join_split(Tail(s), Append(out, Head(s)))

\* the cut keeps NameLimit characters instead of NameKeep
generate_thread_name_long_cut(first_message) ==
    IF first_message = <<>> THEN NewChat
    ELSE LET stripped == strip(first_message)
             cut == IF Len(stripped) > NameLimit
                    THEN SubSeq(stripped, 1, NameLimit) \o Ellipsis
                    ELSE stripped
             name == join_split(cut, <<>>)
         IN IF name # <<>> THEN name ELSE NewChat

\* line 21 is left out: the name keeps its inner whitespace
generate_thread_name_no_join(first_message) ==
    IF first_message = <<>> THEN NewChat
    ELSE LET stripped == strip(first_message)
             name == IF Len(stripped) > NameLimit
                     THEN SubSeq(stripped, 1, NameKeep) \o Ellipsis
                     ELSE stripped
         IN IF name # <<>> THEN name ELSE NewChat

generate_thread_name(first_message) ==
    IF first_message = <<>> THEN NewChat
    ELSE LET stripped == strip(first_message)
             cut == IF Len(stripped) > NameLimit
                    THEN SubSeq(stripped, 1, NameKeep) \o Ellipsis
                    ELSE stripped
             name == join_split(cut, <<>>)
         IN IF name # <<>> THEN name ELSE NewChat

\* what the user types into st.chat_input (never the empty string, line 119);
\* a message that opens an empty chat varies, a later one is always the same
UserInputs(history) ==
    IF history = <<>> THEN { <<"h", "i">>, NewChat } ELSE { <<"h", "i">> }

\* --------------------------------------------------------------- messages
NoId == <<>>

HumanMessage(id, content) ==
    [type |-> "human", id |-> id, content |-> content, tool_calls |-> <<>>,
     tool_call_id |-> NoId, name |-> "", status |-> ""]

AIMessage(id, content, tool_calls) ==
    [type |-> "ai", id |-> id, content |-> content, tool_calls |-> tool_calls,
     tool_call_id |-> NoId, name |-> "", status |-> ""]

ToolMessage(id, content, tool_call_id, name, status) ==
    [type |-> "tool", id |-> id, content |-> content, tool_calls |-> <<>>,
     tool_call_id |-> tool_call_id, name |-> name, status |-> status]

ToolCall(id, name) == [id |-> id, name |-> name]

\* a channel without a reducer: the update overwrites the list
add_messages_overwrite(left, right) == right

\* langgraph add_messages, the reducer of ChatState.messages: a message whose
\* id is already in the list replaces that entry, any other one is appended
RECURSIVE add_messages(_, _)
add_messages(left, right) ==
    IF right = <<>> THEN left
    ELSE LET m == Head(right)
             hit == {i \in 1..Len(left) : left[i].id = m.id}
             merged == IF hit = {} THEN Append(left, m)
                       ELSE [i \in 1..Len(left) |-> IF i \in hit THEN m ELSE left[i]]
         IN add_messages(merged, Tail(right))

\* ------------------------------------------------------------------ tools
\* A tool invocation ends in a returned value or in an exception that leaves
\* the function: [raised, value], value being the text of the return value
\* (or of the exception).
Returned(value) == [raised |-> FALSE, value |-> value]
Raised(value) == [raised |-> TRUE, value |-> value]

\* the ways the search backend behaves for one call
SearchEnv == {"ok", "run_fails", "init_fails"}

brave_search(env) ==
    IF env = "init_fails" THEN Raised(<<"ImportError">>)        \* line 37, outside try
    ELSE IF env = "run_fails" THEN Returned(<<"Search failed: ", "timeout">>)
    ELSE Returned(<<"search result">>)

\* exact quotient of two integers, in lowest terms with a positive denominator
RECURSIVE gcd(_, _)
gcd(a, b) == IF b = 0 THEN a ELSE gcd(b, a % b)
Abs(n) == IF n < 0 THEN -n ELSE n
Quotient(a, b) ==
    LET g == gcd(Abs(a), Abs(b))
        sgn == IF b < 0 THEN -1 ELSE 1
    IN [num |-> sgn * (a \div g), den |-> sgn * (b \div g)]
Whole(n) == [num |-> n, den |-> 1]

\* the second operand is not checked: the ZeroDivisionError lands in the
\* handler of line 70
calculator_unchecked_division(first_num, second_num, operation) ==
    IF operation = "div" /\ second_num = 0
    THEN [error |-> "float division by zero"]
    ELSE IF operation \notin {"add", "sub", "mul", "div"}
    THEN [error |-> "Unsupported operation '" \o operation \o "'"]
    ELSE [first_num |-> first_num, second_num |-> second_num,
          operation |-> operation,
          result |-> CASE operation = "add" -> Whole(first_num + second_num)
                       [] operation = "sub" -> Whole(first_num - second_num)
                       [] operation = "mul" -> Whole(first_num * second_num)
                       [] operation = "div" -> Quotient(first_num, second_num)]

\* the operands of the subtraction are swapped
calculator_swapped_sub(first_num, second_num, operation) ==
    IF operation = "div" /\ second_num = 0
    THEN [error |-> "Division by zero is not allowed"]
    ELSE IF operation \notin {"add", "sub", "mul", "div"}
    THEN [error |-> "Unsupported operation '" \o operation \o "'"]
    ELSE [first_num |-> first_num, second_num |-> second_num,
          operation |-> operation,
          result |-> CASE operation = "add" -> Whole(first_num + second_num)
                       [] operation = "sub" -> Whole(second_num - first_num)
                       [] operation = "mul" -> Whole(first_num * second_num)
                       [] operation = "div" -> Quotient(first_num, second_num)]

calculator(first_num, second_num, operation) ==
    IF operation = "div" /\ second_num = 0
    THEN [error |-> "Division by zero is not allowed"]
    ELSE IF operation \notin {"add", "sub", "mul", "div"}
    THEN [error |-> "Unsupported operation '" \o operation \o "'"]
    ELSE [first_num |-> first_num, second_num |-> second_num,
          operation |-> operation,
          result |-> CASE operation = "add" -> Whole(first_num + second_num)
                       [] operation = "sub" -> Whole(first_num - second_num)
                       [] operation = "mul" -> Whole(first_num * second_num)
                       [] operation = "div" -> Quotient(first_num, second_num)]

\* the arguments the model passes to the calculator in a turn
CalcArgs == { <<4, 0, "div">>, <<2, 3, "add">> }

\* str() of a calculator payload, the content of its tool message
render(payload) ==
    IF "error" \in DOMAIN payload
    THEN <<"{'error': ", payload.error, "}">>
    ELSE <<"{'first_num': ", ToString(payload.first_num),
           ", 'second_num': ", ToString(payload.second_num),
           ", 'operation': ", payload.operation,
           ", 'result': ", ToString(payload.result.num), "/",
           ToString(payload.result.den), "}">>

\* the ways the market-data backend behaves for one call
StockEnv == {"ok", "request_fails", "bad_json"}

get_stock_price(env) ==
    IF env = "request_fails"
    THEN Returned(<<"{'error': ", "API request failed: ", "timeout", "}">>)
    ELSE IF env = "bad_json"
    THEN Returned(<<"{'error': ", "Unexpected error: ", "JSONDecodeError", "}">>)
    ELSE Returned(<<"{'Global Quote': ...}">>)

ToolNames == {"brave_search", "calculator", "get_stock_price"}

\* every outcome one invocation of the named tool can have
Invocations(name) ==
    CASE name = "brave_search" -> {brave_search(e) : e \in SearchEnv}
      [] name = "calculator" ->
            {Returned(render(calculator(a[1], a[2], a[3]))) : a \in CalcArgs}
      [] name = "get_stock_price" -> {get_stock_price(e) : e \in StockEnv}
      [] OTHER -> {}

\* ------------------------------------------------------------- tool node
\* langgraph.prebuilt.ToolNode(tools), one call: an unknown tool name and an
\* exception leaving the tool both become a tool message of status "error"
ToolOutcomes(call) ==
    IF call.name \in ToolNames THEN Invocations(call.name)
    ELSE {Raised(<<call.name, " is not a valid tool">>)}

\* the tool message is tagged with its own identifier, not the call's
tool_node_wrong_id(id, call, outcome) ==
    ToolMessage(id, outcome.value, id, call.name,
                IF outcome.raised THEN "error" ELSE "success")

tool_node(id, call, outcome) ==
    IF outcome.raised
    THEN ToolMessage(id, <<"Error: ">> \o outcome.value \o <<" Please fix your mistakes.">>,
                     call.id, call.name, "error")
    ELSE ToolMessage(id, outcome.value, call.id, call.name, "success")

Pending == [done |-> FALSE, raised |-> FALSE, value |-> <<>>]
Finished(outcome) == [done |-> TRUE, raised |-> outcome.raised, value |-> outcome.value]

\* ------------------------------------------------------------- chat node
\* what llm_with_tools.invoke can do: answer, ask for tools, or raise
FinalAnswers == { <<"Hello", " there">> }
ToolRequests == { <<"brave_search">>, <<"calculator", "get_stock_price">> }

\* uuid.uuid4() and the identifiers the backend and the reducer assign
Fresh(s, k) == <<s, uuid[s] + k>>
generate_thread_id(s) == <<s, "thread", nthreads[s] + 1>>

LLMOutcomes(s) ==
    {[raised |-> FALSE, error |-> "", content |-> c, tool_calls |-> <<>>] : c \in FinalAnswers}
    \cup {[raised |-> FALSE, error |-> "", content |-> <<>>,
           tool_calls |-> [i \in 1..Len(r) |-> ToolCall(Fresh(s, 1 + i), r[i])]]
             : r \in IF calls < MaxCalls THEN ToolRequests ELSE {}}
    \cup {[raised |-> TRUE, error |-> "APIConnectionError", content |-> <<>>,
           tool_calls |-> <<>>]}

\* the handler builds the reply without the error text
chat_node_no_error_text(id, outcome) ==
    AIMessage(id, outcome.content, outcome.tool_calls)

chat_node(id, outcome) ==
    IF outcome.raised
    THEN AIMessage(id, <<"I apologize, but I encountered an error: ",
                         "Error in chat_node: ", outcome.error>>, <<>>)
    ELSE AIMessage(id, outcome.content, outcome.tool_calls)

\* routes every response to the end
tools_condition_never_tools(msgs) == "__end__"

\* routes every assistant message to the tools
tools_condition_any_ai(msgs) ==
    IF msgs # <<>> /\ msgs[Len(msgs)].type = "ai" THEN "tools" ELSE "__end__"

\* langgraph.prebuilt.tools_condition: the edge taken after chat_node
tools_condition(msgs) ==
    IF msgs # <<>> /\ msgs[Len(msgs)].type = "ai" /\ msgs[Len(msgs)].tool_calls # <<>>
    THEN "tools" ELSE "__end__"

\* ----------------------------------------------------------- checkpointer
\* chatbot.get_state(config).values.get("messages", [])
get_state(store, tid) == IF tid \in DOMAIN store THEN store[tid] ELSE <<>>

\* the checkpoint is saved without the thread key
put_keyless(store, tid, msgs) == [t \in DOMAIN store \cup {tid} |-> msgs]

\* the checkpoint is merged into what the store holds
put_merged(store, tid, msgs) ==
    [t \in DOMAIN store \cup {tid} |->
        IF t = tid THEN add_messages(IF tid \in DOMAIN store THEN store[tid] ELSE <<>>, msgs)
        ELSE store[t]]

\* the checkpoint written at the end of a step: the whole message list
put(store, tid, msgs) ==
    [t \in DOMAIN store \cup {tid} |-> IF t = tid THEN msgs ELSE store[t]]

load_conversation(tid) == get_state(checkpoints, tid)

RECURSIVE Orders(_)
Orders(S) ==
    IF S = {} THEN {<<>>}
    ELSE UNION {{<<x>> \o o : o \in Orders(S \ {x})} : x \in S}

\* list(set of thread ids): every order is possible
retrieve_all_threads == IF checkpointer THEN Orders(DOMAIN checkpoints) ELSE {<<>>}

first_human(msgs) ==
    LET hs == {i \in 1..Len(msgs) : msgs[i].type = "human"}
    IN IF hs = {} THEN <<>>
       ELSE msgs[CHOOSE i \in hs : \A j \in hs : i <= j].content

get_thread_name_from_existing_threads ==
    {[i \in 1..Len(o) |->
        [id |-> o[i], name |-> generate_thread_name(first_human(load_conversation(o[i])))]]
      : o \in retrieve_all_threads}

\* --------------------------------------------------------------- frontend
ids(threads) == {threads[i].id : i \in 1..Len(threads)}

\* the new entry replaces the list instead of being appended to it
add_thread_replaces(threads, tid, thread_name) ==
    IF tid \notin ids(threads)
    THEN <<[id |-> tid, name |-> thread_name]>>
    ELSE threads

add_thread(threads, tid, thread_name) ==
    IF tid \notin ids(threads)
    THEN Append(threads, [id |-> tid, name |-> thread_name])
    ELSE threads

update_thread_name(threads, tid, new_name) ==
    LET hit == {i \in 1..Len(threads) : threads[i].id = tid}
    IN IF hit = {} THEN threads
       ELSE LET k == CHOOSE i \in hit : \A j \in hit : i <= j
            IN [threads EXCEPT ![k].name = new_name]

name_of(threads, tid) ==
    LET hit == {i \in 1..Len(threads) : threads[i].id = tid}
    IN threads[CHOOSE i \in hit : \A j \in hit : i <= j].name

\* the check that nothing has been displayed yet is missing
placeholder_name_only(threads, tid, history) ==
    tid \in ids(threads) /\ name_of(threads, tid) = NewChat

\* frontend.py:121-122, the condition under which a message names its thread
first_message_of_new_chat(threads, tid, history) ==
    /\ tid \in ids(threads)
    /\ name_of(threads, tid) = NewChat
    /\ history = <<>>

\* every chunk is yielded, whatever its type
RECURSIVE stream_every_chunk(_)
stream_every_chunk(chunks) ==
    IF chunks = <<>> THEN <<>>
    ELSE Head(chunks).content \o stream_every_chunk(Tail(chunks))

\* frontend.py:162-164, what ai_only_stream yields for the chunks of one
\* graph step: the content of the AIMessage chunks, in order
RECURSIVE ai_only_stream(_)
ai_only_stream(chunks) ==
    IF chunks = <<>> THEN <<>>
    ELSE (IF Head(chunks).type = "ai" THEN Head(chunks).content ELSE <<>>)
         \o ai_only_stream(Tail(chunks))

\* frontend.py:149-160, status_holder["box"] after the chunks of one graph
\* step: created (running) or set to running by every ToolMessage
status_holder(box, chunks) ==
    IF \E i \in 1..Len(chunks) : chunks[i].type = "tool" THEN "running" ELSE box

display(msgs) ==
    [i \in 1..Len(msgs) |->
        [role |-> IF msgs[i].type = "human" THEN "user" ELSE "assistant",
         content |-> msgs[i].content]]

\* ---------------------------------------------------------------- actions
NotReturned == [done |-> FALSE, value |-> <<>>]

\* the session state and the store before any session has connected
ServerStart ==
    /\ checkpoints = <<>>
    /\ started = [s \in Sessions |-> FALSE]
    /\ thread_id = [s \in Sessions |-> NoId]
    /\ chat_threads = [s \in Sessions |-> <<>>]
    /\ message_history = [s \in Sessions |-> <<>>]
    /\ fault = [s \in Sessions |-> "none"]
    /\ pc = [s \in Sessions |-> "IDLE"]
    /\ messages = [s \in Sessions |-> <<>>]
    /\ loaded = [s \in Sessions |-> <<>>]
    /\ results = [s \in Sessions |-> <<>>]
    /\ llm_log = [s \in Sessions |-> "none"]
    /\ calls = 0
    /\ uuid = [s \in Sessions |-> 0]
    /\ nthreads = [s \in Sessions |-> 0]
    /\ ai_message = [s \in Sessions |-> <<>>]
    /\ status_box = [s \in Sessions |-> "none"]

Start ==
    /\ checkpointer \in BOOLEAN
    /\ ServerStart
    /\ call_args = <<>>
    /\ returned = NotReturned

\* one browser session
Init == clients = {"s1"} /\ Start

\* two browser sessions on the same server process
InitConc == clients = Sessions /\ Start

RECURSIVE Sum(_, _)
Sum(f, S) == IF S = {} THEN 0
             ELSE LET x == CHOOSE y \in S : TRUE IN f[x] + Sum(f, S \ {x})
ThreadsDrawn == Sum(nthreads, Sessions)

turn_vars == <<pc, messages, loaded, results, llm_log, calls, ai_message, status_box>>

\* frontend.py:74-87, the first run of the script for a session
SessionInit(s) ==
    /\ s \in clients
    /\ ~started[s]
    /\ \A r \in Sessions : Before(r, s) => started[r]
    /\ \E existing \in get_thread_name_from_existing_threads :
          chat_threads' = [chat_threads EXCEPT
                ![s] = add_thread(existing, generate_thread_id(s), NewChat)]
    /\ started' = [started EXCEPT ![s] = TRUE]
    /\ thread_id' = [thread_id EXCEPT ![s] = generate_thread_id(s)]
    /\ message_history' = [message_history EXCEPT ![s] = <<>>]
    /\ nthreads' = [nthreads EXCEPT ![s] = @ + 1]
    /\ fault' = [fault EXCEPT ![s] = "none"]
    /\ UNCHANGED <<call_vars, clients, checkpointer, checkpoints, uuid, turn_vars>>

\* frontend.py:92-93 and 25-29, the "New Chat" button
reset_chat(s) ==
    /\ started[s] /\ pc[s] = "IDLE"
    /\ ThreadsDrawn + Cardinality({r \in clients : ~started[r]}) < MaxThreads
    /\ thread_id' = [thread_id EXCEPT ![s] = generate_thread_id(s)]
    /\ chat_threads' = [chat_threads EXCEPT
            ![s] = add_thread(@, generate_thread_id(s), NewChat)]
    /\ message_history' = [message_history EXCEPT ![s] = <<>>]
    /\ nthreads' = [nthreads EXCEPT ![s] = @ + 1]
    /\ fault' = [fault EXCEPT ![s] = "none"]
    /\ UNCHANGED <<call_vars, clients, checkpointer, checkpoints, started, uuid, turn_vars>>

\* frontend.py:96-108, a click on the i-th thread of the sidebar.  Without a
\* checkpointer chatbot.get_state raises ValueError("No checkpointer set")
\* after line 101 has already set the thread id.
SwitchThread(s, i) ==
    /\ started[s] /\ pc[s] = "IDLE"
    /\ i \in 1..Len(chat_threads[s])
    /\ thread_id' = [thread_id EXCEPT ![s] = chat_threads[s][i].id]
    /\ IF checkpointer
       THEN /\ message_history' = [message_history EXCEPT
                    ![s] = display(load_conversation(chat_threads[s][i].id))]
            /\ fault' = [fault EXCEPT ![s] = "none"]
       ELSE /\ fault' = [fault EXCEPT ![s] = "ValueError"]
            /\ UNCHANGED message_history
    /\ UNCHANGED <<call_vars, clients, checkpointer, checkpoints, started, chat_threads, uuid, nthreads,
                   turn_vars>>

\* frontend.py:119-147, a submitted message up to the start of the stream:
\* the graph reads the thread's checkpoint, adds the input and saves it
Submit(s, user_input) ==
    /\ started[s] /\ pc[s] = "IDLE"
    /\ calls < MaxCalls
    /\ LET tid == thread_id[s]
           rename == first_message_of_new_chat(chat_threads[s], tid, message_history[s])
           before == IF checkpointer THEN get_state(checkpoints, tid) ELSE <<>>
           msgs == add_messages(before, <<HumanMessage(Fresh(s, 1), user_input)>>)
       IN /\ chat_threads' = [chat_threads EXCEPT ![s] =
                IF rename
                THEN update_thread_name(@, tid, generate_thread_name(user_input))
                ELSE @]
          /\ message_history' = [message_history EXCEPT
                ![s] = Append(@, [role |-> "user", content |-> user_input])]
          /\ loaded' = [loaded EXCEPT ![s] = before]
          /\ messages' = [messages EXCEPT ![s] = msgs]
          /\ checkpoints' = IF checkpointer THEN put(checkpoints, tid, msgs)
                            ELSE checkpoints
    /\ pc' = [pc EXCEPT ![s] = "AWAITING_MODEL"]
    /\ results' = [results EXCEPT ![s] = <<>>]
    /\ llm_log' = [llm_log EXCEPT ![s] = "none"]
    /\ calls' = calls + 1
    /\ uuid' = [uuid EXCEPT ![s] = @ + 1]
    /\ ai_message' = [ai_message EXCEPT ![s] = <<>>]
    /\ status_box' = [status_box EXCEPT ![s] = "none"]
    /\ fault' = [fault EXCEPT ![s] = "none"]
    /\ UNCHANGED <<call_vars, clients, checkpointer, started, thread_id, nthreads>>

session_vars == <<started, thread_id, chat_threads, message_history, fault, nthreads>>

\* rr.py:104-116 and 138-139: the chat_node step and the edge out of it
ChatNode(s) ==
    /\ pc[s] = "AWAITING_MODEL"
    /\ \E outcome \in LLMOutcomes(s) :
          LET response == chat_node(Fresh(s, 1), outcome)
              msgs == add_messages(messages[s], <<response>>)
              tools == tools_condition(msgs) = "tools"
          IN /\ messages' = [messages EXCEPT ![s] = msgs]
             /\ checkpoints' = IF checkpointer THEN put(checkpoints, thread_id[s], msgs)
                               ELSE checkpoints
             /\ pc' = [pc EXCEPT ![s] = IF tools THEN "EXECUTING_TOOLS" ELSE "DONE"]
             /\ results' = [results EXCEPT ![s] =
                    IF tools THEN [i \in 1..Len(response.tool_calls) |-> Pending]
                    ELSE <<>>]
             /\ uuid' = [uuid EXCEPT ![s] = @ + 1 + Len(response.tool_calls)]
             /\ ai_message' = [ai_message EXCEPT ![s] = @ \o ai_only_stream(<<response>>)]
             /\ status_box' = [status_box EXCEPT ![s] = status_holder(@, <<response>>)]
             /\ calls' = IF tools THEN calls + 1 ELSE calls
             /\ llm_log' = [llm_log EXCEPT ![s] =
                    IF outcome.raised THEN "Error in chat_node" ELSE "none"]
    /\ UNCHANGED <<call_vars, clients, checkpointer, session_vars, loaded>>

\* the tool node returns as soon as one call has an outcome
any_done(rs) == \E i \in 1..Len(rs) : rs[i].done

\* the tool node returns when every call it was given has an outcome
all_done(rs) == \A i \in 1..Len(rs) : rs[i].done

\* the tool messages of the finished calls, in call order
RECURSIVE outputs(_, _, _, _)
outputs(s, requested, rs, i) ==
    IF i > Len(requested) THEN <<>>
    ELSE (IF rs[i].done THEN <<tool_node(Fresh(s, i), requested[i], rs[i])>> ELSE <<>>)
         \o outputs(s, requested, rs, i + 1)

pending_calls(s) == messages[s][Len(messages[s])].tool_calls

\* rr.py:119, the tool node runs the i-th requested call (in any order)
ExecTool(s, i) ==
    /\ pc[s] = "EXECUTING_TOOLS"
    /\ i \in 1..Len(results[s])
    /\ ~results[s][i].done
    /\ \E outcome \in ToolOutcomes(pending_calls(s)[i]) :
          results' = [results EXCEPT ![s][i] = Finished(outcome)]
    /\ UNCHANGED <<call_vars, clients, checkpointer, checkpoints, session_vars, pc, messages, loaded,
                   llm_log, calls, uuid, ai_message, status_box>>

\* rr.py:119 and 140: the tool node returns one message per call, in call
\* order, and the graph goes back to chat_node (frontend.py:149-160 sees them)
ToolsReturn(s) ==
    /\ pc[s] = "EXECUTING_TOOLS"
    /\ all_done(results[s])
    /\ LET requested == pending_calls(s)
           out == outputs(s, requested, results[s], 1)
           msgs == add_messages(messages[s], out)
       IN /\ messages' = [messages EXCEPT ![s] = msgs]
          /\ checkpoints' = IF checkpointer THEN put(checkpoints, thread_id[s], msgs)
                            ELSE checkpoints
          /\ uuid' = [uuid EXCEPT ![s] = @ + Len(requested)]
          /\ ai_message' = [ai_message EXCEPT ![s] = @ \o ai_only_stream(out)]
          /\ status_box' = [status_box EXCEPT ![s] = status_holder(@, out)]
    /\ pc' = [pc EXCEPT ![s] = "AWAITING_MODEL"]
    /\ results' = [results EXCEPT ![s] = <<>>]
    /\ UNCHANGED <<call_vars, clients, checkpointer, session_vars, loaded, llm_log, calls>>

\* frontend.py:166-177, the stream has ended
Finish(s) ==
    /\ pc[s] = "DONE"
    /\ message_history' = [message_history EXCEPT
            ![s] = Append(@, [role |-> "assistant", content |-> ai_message[s]])]
    /\ status_box' = [status_box EXCEPT ![s] = IF @ = "none" THEN "none" ELSE "complete"]
    /\ pc' = [pc EXCEPT ![s] = "IDLE"]
    /\ messages' = [messages EXCEPT ![s] = <<>>]
    /\ loaded' = [loaded EXCEPT ![s] = <<>>]
    /\ ai_message' = [ai_message EXCEPT ![s] = <<>>]
    /\ llm_log' = [llm_log EXCEPT ![s] = "none"]
    /\ UNCHANGED <<call_vars, clients, checkpointer, checkpoints, started, thread_id, chat_threads, fault,
                   results, calls, uuid, nthreads>>

Next ==
    \E s \in Sessions :
        \/ SessionInit(s)
        \/ reset_chat(s)
        \/ \E i \in 1..Len(chat_threads[s]) : SwitchThread(s, i)
        \/ \E u \in UserInputs(message_history[s]) : Submit(s, u)
        \/ ChatNode(s)
        \/ \E i \in 1..Len(results[s]) : ExecTool(s, i)
        \/ ToolsReturn(s)
        \/ Finish(s)

Spec == Init /\ [][Next]_vars

\* concurrent sessions working on the threads of the store (no new chats)
NextConc ==
    \E s \in Sessions :
        \/ SessionInit(s)
        \/ \E i \in 1..Len(chat_threads[s]) : SwitchThread(s, i)
        \/ \E u \in UserInputs(message_history[s]) : Submit(s, u)
        \/ ChatNode(s)
        \/ \E i \in 1..Len(results[s]) : ExecTool(s, i)
        \/ ToolsReturn(s)
        \/ Finish(s)

SpecConc == InitConc /\ [][NextConc]_vars

\* ----------------------------------------------------------------- claims
IsPrefix(a, b) == Len(a) <= Len(b) /\ SubSeq(b, 1, Len(a)) = a
Last(seq) == seq[Len(seq)]
IsFinal(m) == m.type = "ai" /\ m.tool_calls = <<>>

\* positions of the tool messages that answer the call with identifier id
Answers(msgs, id) == {j \in 1..Len(msgs) : msgs[j].type = "tool" /\ msgs[j].tool_call_id = id}

\* every tool call of msgs has exactly one answer, after the calling message
\* and before the next final assistant message
WellPaired(msgs) ==
    \A i \in 1..Len(msgs) : \A c \in 1..Len(msgs[i].tool_calls) :
        LET js == Answers(msgs, msgs[i].tool_calls[c].id)
        IN /\ Cardinality(js) = 1
           /\ \A j \in js :
                /\ j > i
                /\ msgs[j].name = msgs[i].tool_calls[c].name
                /\ \A k \in (i + 1)..Len(msgs) : IsFinal(msgs[k]) => j < k

\* C1: in a committed turn (the graph has reached its end) every ToolCall of
\* the turn's message list, in memory and as persisted, has exactly one
\* ToolResult with the same call id, placed after the calling message and
\* before the next final assistant message.
C1_ToolCallsPaired ==
    \A s \in Sessions : pc[s] = "DONE" =>
        /\ WellPaired(messages[s])
        /\ checkpointer => WellPaired(get_state(checkpoints, thread_id[s]))

C1_Witness ==
    \E s \in Sessions :
        /\ pc[s] = "DONE" /\ checkpointer
        /\ \E i \in 1..Len(messages[s]) : Len(messages[s][i].tool_calls) = 2

\* C2: a chat_node step in which the model call raised appends exactly one
\* assistant message, whose content carries the error text and which has no
\* tool calls, leaves the earlier messages alone, ends no script run with an
\* exception, and takes the turn from AWAITING_MODEL straight to DONE.
C2_ModelFailureIsFinal ==
    [][\A s \in Sessions :
        (pc[s] = "AWAITING_MODEL" /\ llm_log'[s] = "Error in chat_node") =>
            /\ pc'[s] = "DONE"
            /\ Len(messages'[s]) = Len(messages[s]) + 1
            /\ IsPrefix(messages[s], messages'[s])
            /\ IsFinal(Last(messages'[s]))
            /\ Last(messages'[s]).content =
                 <<"I apologize, but I encountered an error: ",
                   "Error in chat_node: ", "APIConnectionError">>
            /\ fault'[s] = "none"]_vars

C2_Witness ==
    \E s \in Sessions : pc[s] = "DONE" /\ llm_log[s] = "Error in chat_node"

\* C3: a step out of AWAITING_MODEL goes to EXECUTING_TOOLS exactly when the
\* response just appended carries tool calls and to DONE otherwise, the
\* response then being the last message; EXECUTING_TOOLS is left only for
\* AWAITING_MODEL; DONE is left only by the end of the turn, and nothing is
\* appended or persisted from DONE.
C3_Transitions ==
    [][\A s \in Sessions :
        /\ (pc[s] = "AWAITING_MODEL" /\ messages'[s] # messages[s]) =>
              /\ Last(messages'[s]).type = "ai"
              /\ pc'[s] \in {"EXECUTING_TOOLS", "DONE"}
              /\ pc'[s] = "EXECUTING_TOOLS" <=> Last(messages'[s]).tool_calls # <<>>
        /\ (pc[s] = "AWAITING_MODEL" /\ messages'[s] = messages[s]) =>
              pc'[s] = "AWAITING_MODEL"
        /\ pc[s] = "EXECUTING_TOOLS" => pc'[s] \in {"EXECUTING_TOOLS", "AWAITING_MODEL"}
        /\ pc[s] = "DONE" =>
              /\ pc'[s] \in {"DONE", "IDLE"}
              /\ pc'[s] = "DONE" => messages'[s] = messages[s]
              /\ get_state(checkpoints', thread_id[s]) = get_state(checkpoints, thread_id[s])
      ]_vars

C3_Witness ==
    \E s \in Sessions :
        /\ pc[s] = "DONE"
        /\ \E i \in 1..Len(messages[s]) : messages[s][i].type = "tool"

\* the identifiers of the tool calls of msgs that have no tool message yet
Unanswered(msgs) ==
    UNION {{msgs[i].tool_calls[c].id : c \in 1..Len(msgs[i].tool_calls)} : i \in 1..Len(msgs)}
    \ {msgs[j].tool_call_id : j \in {k \in 1..Len(msgs) : msgs[k].type = "tool"}}

\* C4: while the model is awaited, and at DONE, no tool runs and every tool
\* call made so far has its ToolResult appended; while tools run, the calls
\* of the last response are exactly the unanswered ones, whichever of them
\* have already finished.
C4_AllResultsBeforeModel ==
    \A s \in Sessions :
        /\ pc[s] \in {"AWAITING_MODEL", "DONE"} =>
              results[s] = <<>> /\ Unanswered(messages[s]) = {}
        /\ pc[s] = "EXECUTING_TOOLS" =>
              /\ Len(results[s]) = Len(Last(messages[s]).tool_calls)
              /\ Unanswered(messages[s]) =
                    {Last(messages[s]).tool_calls[c].id : c \in 1..Len(results[s])}
              /\ Cardinality(Unanswered(messages[s])) = Len(results[s])

\* the second of two calls has finished before the first
C4_Witness ==
    \E s \in Sessions :
        /\ pc[s] = "EXECUTING_TOOLS" /\ Len(results[s]) = 2
        /\ results[s][2].done /\ ~results[s][1].done

\* the thread identifiers any session knows or the store holds
AllThreads == DOMAIN checkpoints \cup UNION {ids(chat_threads[s]) : s \in Sessions}

\* the turn of session s: what its message list holds beyond what it loaded
TurnShape(s, h) ==
    LET n == Len(loaded[s])
    IN /\ IsPrefix(loaded[s], h)
       /\ Len(h) >= n + 2
       /\ h[n + 1].type = "human"
       /\ h[n + 1].content = Last(message_history[s]).content
       /\ \A k \in (n + 2)..Len(h) : h[k].type \in {"ai", "tool"}
       /\ \A k \in (n + 2)..(Len(h) - 1) : ~IsFinal(h[k])
       /\ IsFinal(Last(h))

\* C5: with one writer, when a turn reaches DONE the persisted history of its
\* thread is the history read at the start of the turn followed by the user
\* message, the turn's tool-call and tool-result messages and the final
\* assistant message; and no step ever removes, replaces or reorders a
\* persisted message (each persisted history only grows at its end).
C5_AppendOnlyCommit ==
    /\ [](\A s \in Sessions : (pc[s] = "DONE" /\ checkpointer) =>
            TurnShape(s, get_state(checkpoints, thread_id[s])))
    /\ [][\A t \in AllThreads :
            IsPrefix(get_state(checkpoints, t), get_state(checkpoints', t))]_vars

\* a second turn on a thread has reached DONE
C5_Witness ==
    \E s \in Sessions :
        /\ pc[s] = "DONE" /\ checkpointer
        /\ loaded[s] # <<>>
        /\ Len(get_state(checkpoints, thread_id[s])) > Len(loaded[s])

\* C6: reading a thread back after a turn on it has been persisted gives
\* exactly the message list the turn persisted, in order; and a step of a
\* turn on one thread leaves what is read back for every other thread as it
\* was.
C6_ReadBack ==
    /\ [](\A s \in Sessions : (pc[s] = "DONE" /\ checkpointer) =>
            load_conversation(thread_id[s]) = messages[s])
    /\ [][\A s \in Sessions : \A t \in AllThreads :
            (pc[s] \notin {"IDLE", "DONE"} \/ pc'[s] \notin {"IDLE", "DONE"}) /\ t # thread_id[s] =>
                get_state(checkpoints', t) = get_state(checkpoints, t)]_vars

\* a turn is committed on one thread while another thread holds a history
C6_Witness ==
    \E s \in Sessions :
        /\ pc[s] = "DONE" /\ checkpointer
        /\ \E t \in DOMAIN checkpoints : t # thread_id[s] /\ checkpoints[t] # <<>>

\* C7 (as claimed): no invocation of a tool ends in an exception that leaves
\* the tool function, so every tool message is built from a returned payload.
C7_ToolsNeverRaise ==
    \A s \in Sessions :
        /\ \A i \in 1..Len(results[s]) : ~results[s][i].raised
        /\ \A k \in 1..Len(messages[s]) :
              messages[s][k].type = "tool" => messages[s][k].status = "success"

\* C8 (as claimed): without a checkpointer no script run of a session ends
\* in an uncaught exception.
C8_DegradedNeverFaults ==
    \A s \in Sessions : ~checkpointer => fault[s] = "none"

\* a step in which session s submits a message
Submits(s) == pc[s] = "IDLE" /\ pc'[s] = "AWAITING_MODEL"

C10_LastWriterWins ==
    [][\A s \in Sessions :
        (checkpointer /\ messages'[s] # messages[s] /\ messages'[s] # <<>>) =>
            get_state(checkpoints', thread_id[s]) = messages'[s]]_vars

\* two turns on the same thread are both done and the persisted history is
\* one turn's snapshot, without a message the other turn appended
C10_Witness ==
    /\ pc["s1"] = "DONE" /\ pc["s2"] = "DONE" /\ checkpointer
    /\ thread_id["s1"] = thread_id["s2"]
    /\ get_state(checkpoints, thread_id["s1"]) = messages["s2"]
    /\ \E k \in 1..Len(messages["s1"]) :
          /\ k > Len(loaded["s1"])
          /\ \A j \in 1..Len(messages["s2"]) : messages["s2"][j].id # messages["s1"][k].id

\* ------------------------------------------------------------ claims, C11
\* the steps of a running turn: the graph executor keeps taking them
TurnStep ==
    \E s \in Sessions :
        \/ ChatNode(s)
        \/ \E i \in 1..Len(results[s]) : ExecTool(s, i)
        \/ ToolsReturn(s)

\* the application with a graph executor that never abandons a running turn
SpecFair == Init /\ [][Next]_vars /\ WF_vars(TurnStep)

\* a chat_node step of session s in which the model asks for tools
ToolRequest(s) == ChatNode(s) /\ pc'[s] = "EXECUTING_TOOLS"

MaxOperand == 3
Operands == -MaxOperand..MaxOperand
Supported == {"add", "sub", "mul", "div"}
Operations == Supported \cup {"xor", "pow", ""}

app_vars == <<clients, checkpointer, checkpoints, started, thread_id, chat_threads,
              message_history, fault, pc, messages, loaded, results, llm_log,
              calls, uuid, nthreads, ai_message, status_box>>

\* no session is connected; one function is called on its own
NoClients == clients = {} /\ checkpointer = TRUE /\ ServerStart

InitCalc ==
    /\ NoClients
    /\ call_args \in [first_num : Operands, second_num : Operands, operation : Operations]
    /\ returned = NotReturned

\* rr.py:44-71, one call of the calculator tool
Calculate ==
    /\ ~returned.done
    /\ returned' = [done |-> TRUE,
                    value |-> calculator(call_args.first_num, call_args.second_num,
                                         call_args.operation)]
    /\ UNCHANGED <<call_args, app_vars>>

SpecCalc == InitCalc /\ [][Calculate]_vars

\* C12: the calculator returns a payload for every call; for "div" with
\* second operand 0 it is {error: "Division by zero is not allowed"}; for an
\* operation outside add, sub, mul, div it is
\* {error: "Unsupported operation '<operation>'"} whatever the operands; an
\* error payload has no other field, so no result.
C12_ErrorPayloads ==
    returned.done =>
        LET v == returned.value
            op == call_args.operation
        IN /\ (op = "div" /\ call_args.second_num = 0) =>
                 v = [error |-> "Division by zero is not allowed"]
           /\ op \notin Supported =>
                 /\ v = [error |-> "Unsupported operation '" \o op \o "'"]
                 /\ op = "xor" => v.error = "Unsupported operation 'xor'"
           /\ "error" \in DOMAIN v => DOMAIN v = {"error"}
           /\ ("error" \in DOMAIN v) <=>
                 (op \notin Supported \/ (op = "div" /\ call_args.second_num = 0))

C12_Witness ==
    /\ returned.done
    /\ call_args = [first_num |-> 3, second_num |-> 0, operation |-> "div"]
    /\ "error" \in DOMAIN returned.value

\* the value a op b, as a fraction: r is that value
IsValue(r, a, b, op) ==
    /\ r.den > 0
    /\ CASE op = "add" -> r.num = (a + b) * r.den
         [] op = "sub" -> r.num = (a - b) * r.den
         [] op = "mul" -> r.num = (a * b) * r.den
         [] op = "div" -> r.num * b = a * r.den

Defined(a, b, op) == op \in Supported /\ ~(op = "div" /\ b = 0)

\* C13 (as claimed): for a supported operation (second operand not 0 for
\* div) the returned payload is exactly {result: a op b}.
C13_ResultOnly ==
    (returned.done /\ Defined(call_args.first_num, call_args.second_num, call_args.operation)) =>
        /\ DOMAIN returned.value = {"result"}
        /\ IsValue(returned.value.result, call_args.first_num, call_args.second_num,
                   call_args.operation)

\* C13 (amended): for a supported operation (second operand not 0 for div)
\* the returned payload has no error, its result is a op b, and it also
\* carries the two operands and the operation it was called with.
C13_ResultAndEcho ==
    (returned.done /\ Defined(call_args.first_num, call_args.second_num, call_args.operation)) =>
        LET v == returned.value
        IN /\ DOMAIN v = {"first_num", "second_num", "operation", "result"}
           /\ IsValue(v.result, call_args.first_num, call_args.second_num,
                      call_args.operation)
           /\ v.first_num = call_args.first_num
           /\ v.second_num = call_args.second_num
           /\ v.operation = call_args.operation
           /\ (call_args = [first_num |-> 2, second_num |-> 3, operation |-> "add"]) =>
                 v.result = [num |-> 5, den |-> 1]

C13_Witness ==
    /\ returned.done
    /\ call_args = [first_num |-> -3, second_num |-> 2, operation |-> "div"]
    /\ returned.value.result = [num |-> -3, den |-> 2]

\* ----------------------------------------------- the thread name, C14-C15
MaxPad == 2     \* whitespace characters before and after the message
MaxTail == 4    \* characters of the short second word

RECURSIVE Rep(_, _)
Rep(c, n) == IF n = 0 THEN <<>> ELSE <<c>> \o Rep(c, n - 1)

\* lengths of the first word, around the two limits of lines 17-18
Heads == {0, 1, NameKeep - 2, NameKeep - 1, NameKeep, NameKeep + 1,
          NameLimit, NameLimit + 1}
Tails == (0..MaxTail) \cup {NameLimit}
Separators == { <<>>, <<" ">>, <<" ", " ">>, <<"\n">>, <<"\t", " ">> }

\* first messages: padding, a word, a separator, a word, padding
FirstMessages ==
    { Rep(" ", l) \o Rep("a", h) \o sep \o Rep("b", n) \o Rep(" ", r) :
        l \in 0..MaxPad, h \in Heads, sep \in Separators, n \in Tails,
        r \in 0..MaxPad }

InitName ==
    /\ NoClients
    /\ call_args \in [first_message : FirstMessages]
    /\ returned = NotReturned

\* frontend.py:10-23, one call of generate_thread_name
GenerateThreadName ==
    /\ ~returned.done
    /\ returned' = [done |-> TRUE, value |-> generate_thread_name(call_args.first_message)]
    /\ UNCHANGED <<call_args, app_vars>>

SpecName == InitName /\ [][GenerateThreadName]_vars

\* reference definitions of trimming and collapsing, by position
Solid(s) == {i \in 1..Len(s) : s[i] \notin Whitespace}
Least(S) == CHOOSE i \in S : \A j \in S : i <= j
Greatest(S) == CHOOSE i \in S : \A j \in S : j <= i
Trimmed(s) == IF Solid(s) = {} THEN <<>> ELSE SubSeq(s, Least(Solid(s)), Greatest(Solid(s)))
\* positions kept: every non-whitespace character and the first whitespace
\* of every run that stands between two words
Kept(s) ==
    {i \in 1..Len(s) :
        \/ s[i] \notin Whitespace
        \/ /\ i > 1 /\ s[i - 1] \notin Whitespace
           /\ \E j \in Solid(s) : j > i}
RECURSIVE Pick(_, _, _)
Pick(s, K, i) ==
    IF i > Len(s) THEN <<>>
    ELSE (IF i \in K THEN <<IF s[i] \in Whitespace THEN " " ELSE s[i]>> ELSE <<>>)
         \o Pick(s, K, i + 1)
Collapsed(s) == Pick(s, Kept(s), 1)

Clean(name) ==
    /\ name # <<>> => (name[1] \notin Whitespace /\ name[Len(name)] \notin Whitespace)
    /\ \A i \in 1..Len(name) : name[i] \notin {"\n", "\t"}
    /\ \A i \in 1..Len(name) - 1 : ~(name[i] \in Whitespace /\ name[i + 1] \in Whitespace)

\* C14 (as claimed): a first message longer than 50 characters is named by
\* its first 47 characters followed by "..."; the empty message is named
\* "New Chat".
C14_TruncatedTo47 ==
    returned.done =>
        LET m == call_args.first_message
        IN /\ Len(m) > NameLimit => returned.value = SubSeq(m, 1, NameKeep) \o Ellipsis
           /\ m = <<>> => returned.value = NewChat

\* C14 (amended): the length is measured after trimming; a message whose
\* trimmed text is longer than 50 characters is named by the first 47
\* characters of the trimmed text followed by "...", with the whitespace of
\* that whole text collapsed (so exactly those 47 characters plus "..." when
\* they hold no whitespace run and do not end in whitespace); the empty
\* message, and a message of whitespace only, is named "New Chat".
C14_TruncatedAfterTrim ==
    returned.done =>
        LET m == call_args.first_message
            cut == SubSeq(Trimmed(m), 1, NameKeep)
        IN /\ Len(Trimmed(m)) > NameLimit =>
                 /\ returned.value = Collapsed(cut \o Ellipsis)
                 /\ Collapsed(cut) = cut => returned.value = cut \o Ellipsis
                 /\ Len(returned.value) <= NameLimit
           /\ Trimmed(m) = <<>> => returned.value = NewChat

C14_Witness ==
    /\ returned.done
    /\ Len(call_args.first_message) > NameLimit
    /\ returned.value = Rep("a", NameKeep) \o Ellipsis

\* C15 (as claimed): the name has no leading or trailing whitespace, no
\* newline and no two adjacent whitespace characters, and a message of 50
\* characters or fewer is named by exactly its whitespace-collapsed text.
C15_CollapsedText ==
    returned.done =>
        /\ Clean(returned.value)
        /\ Len(call_args.first_message) <= NameLimit =>
              returned.value = Collapsed(call_args.first_message)

\* C15 (amended): the name has no leading or trailing whitespace, no
\* newline and no two adjacent whitespace characters; a message of 50
\* characters or fewer that holds a non-whitespace character is named by
\* exactly its whitespace-collapsed text, and one that holds none (its
\* collapsed text is empty) is named "New Chat".
C15_CollapsedOrPlaceholder ==
    returned.done =>
        LET m == call_args.first_message
        IN /\ Clean(returned.value)
           /\ returned.value # <<>>
           /\ (Len(m) <= NameLimit /\ Solid(m) # {}) => returned.value = Collapsed(m)
           /\ (Len(m) <= NameLimit /\ Solid(m) = {}) =>
                 (Collapsed(m) = <<>> /\ returned.value = NewChat)

C15_Witness ==
    /\ returned.done
    /\ call_args.first_message = <<" ", "a", "\t", " ", "b", "b", " ">>
    /\ returned.value = <<"a", " ", "b", "b">>

\* ------------------------------------------------------ the sidebar, C16
\* C16: in every session that has been initialized, whatever the sequence
\* of new-chat, thread-switch and message-submit actions, the current
\* thread_id is the id of exactly one entry of chat_threads, no two entries
\* have the same id, and every step keeps every entry, at its position and
\* with its id.
C16_CurrentThreadListedOnce ==
    /\ [](\A s \in Sessions : started[s] =>
            /\ Cardinality({i \in 1..Len(chat_threads[s]) :
                               chat_threads[s][i].id = thread_id[s]}) = 1
            /\ \A i, j \in 1..Len(chat_threads[s]) :
                  chat_threads[s][i].id = chat_threads[s][j].id => i = j)
    /\ [][\A s \in Sessions : started[s] =>
            /\ Len(chat_threads'[s]) >= Len(chat_threads[s])
            /\ \A i \in 1..Len(chat_threads[s]) :
                  chat_threads'[s][i].id = chat_threads[s][i].id]_vars

\* the session has opened a second chat, talked in it and gone back to the
\* first one
C16_Witness ==
    \E s \in Sessions :
        /\ started[s] /\ pc[s] = "IDLE"
        /\ Len(chat_threads[s]) >= 2
        /\ thread_id[s] = chat_threads[s][1].id
        /\ chat_threads[s][2].name # NewChat

\* ------------------------------------------------- the thread switch, C17
\* C17: a thread switch leaves in message_history one entry per persisted
\* message of the selected thread, in the persisted order, each with the
\* content of its message and the role "user" for a user message and
\* "assistant" for any other; it leaves the checkpoint store unchanged.
C17_SwitchShowsPersisted ==
    [][\A s \in Sessions : \A i \in 1..Len(chat_threads[s]) :
          SwitchThread(s, i) =>
            LET persisted == IF chat_threads[s][i].id \in DOMAIN checkpoints
                             THEN checkpoints[chat_threads[s][i].id] ELSE <<>>
                shown == message_history'[s]
            IN /\ Len(shown) = Len(persisted)
               /\ \A k \in 1..Len(shown) :
                     /\ shown[k].content = persisted[k].content
                     /\ shown[k].role = "user" <=> persisted[k].type = "human"
                     /\ shown[k].role = "assistant" <=> persisted[k].type # "human"
               /\ checkpoints' = checkpoints]_vars

\* ---------------------------------------------------- the streaming, C18
\* the messages the running turn of s has added to its thread
RECURSIVE Produced(_, _)
Produced(msgs, k) ==
    IF k > Len(msgs) THEN <<>> ELSE <<msgs[k]>> \o Produced(msgs, k + 1)
TurnOutput(s) == Produced(messages[s], Len(loaded[s]) + 2)

RECURSIVE AssistantText(_)
AssistantText(msgs) ==
    IF msgs = <<>> THEN <<>>
    ELSE LET rest == AssistantText(SubSeq(msgs, 1, Len(msgs) - 1))
             last == msgs[Len(msgs)]
         IN IF last.type = "ai" THEN rest \o last.content ELSE rest

ToolResultStreamed(s) == \E k \in 1..Len(TurnOutput(s)) : TurnOutput(s)[k].type = "tool"

\* C18: while a turn is streamed, what has been shown is exactly the
\* fragments of the assistant messages of the turn, in the order produced
\* (nothing of a tool result); the status indicator exists if and only if
\* a tool-result message has been streamed in the turn, and is running
\* until the stream ends; when the stream ends the indicator is "complete"
\* if it exists and absent otherwise, and the text shown is saved as the
\* assistant entry of message_history.
C18_OnlyAssistantStreamed ==
    /\ [](\A s \in Sessions : pc[s] # "IDLE" =>
            /\ ai_message[s] = AssistantText(TurnOutput(s))
            /\ status_box[s] = (IF ToolResultStreamed(s) THEN "running" ELSE "none"))
    /\ [][\A s \in Sessions : Finish(s) =>
            /\ status_box'[s] = (IF ToolResultStreamed(s) THEN "complete" ELSE "none")
            /\ message_history'[s] =
                  Append(message_history[s],
                         [role |-> "assistant", content |-> AssistantText(TurnOutput(s))])]_vars

\* a turn that used tools and then answered has ended
C18_Witness ==
    \E s \in Sessions :
        /\ pc[s] = "IDLE"
        /\ status_box[s] = "complete"
        /\ message_history[s] # <<>>
        /\ Last(message_history[s]) = [role |-> "assistant", content |-> <<"Hello", " there">>]

====
